---- MODULE Spec2Model ----
(***************************************************************************)
(* Model of the fast_lane.ai decoder (src/fastlane_decoder.py): the binary *)
(* reader getNodesFromFastLane, the node derivation TrackDetailNode, the   *)
(* transform nodes_to_dicts, the writers and the batch driver main.        *)
(* The last two sections model the plugin (src/kristex-app.py): its        *)
(* chunked senders and the threads around the prepared track.              *)
(*                                                                         *)
(* Representation.  A 32-bit float is held as a fixed-point integer in     *)
(* units of 1/Unit; a 32-bit int is held as itself.  A file is a sequence  *)
(* of 4-byte words followed by 0..3 trailing bytes.  Python's None is the  *)
(* empty tuple << >>; a present 3-D point is a 3-tuple.  A dict is the     *)
(* sequence of its <<key, value>> items in insertion order, each value     *)
(* wrapped as <<v>> (or << >> for None).                                   *)
(***************************************************************************)
EXTENDS Integers, Sequences, FiniteSets, TLC

VARIABLES
    pc,             \* where the run is: "start", then "done" ("plugin" for the plugin's threads)
    fai_file,       \* the file handed to getNodesFromFastLane
    parsed,         \* the outcome of the call, once pc = "done"
    raw,            \* the (rawIdeal, prevRawIdeal, rawDetail) triples nodes are built from
    nodes,          \* the node list handed to nodes_to_dicts
    include_walls,  \* nodes_to_dicts argument
    subsample,      \* nodes_to_dicts argument
    dicts,          \* the list nodes_to_dicts returned, once pc = "done"
    args,           \* main: the parsed command line
    matches,        \* main: glob.glob(args.fastlane), in the order glob gave
    disk,           \* main: the content of every matched input file
    outIsFile,      \* main: args.out names an existing regular file
    loop_i,         \* main: 1-based position of the loop in sorted(matches)
    outfs,          \* main: the output files written, path -> content
    writes,         \* main (history): the opens for writing, [src, out_file]
    stdout_log,     \* main: what was printed to standard output
    stderr_log,     \* main: what was printed to standard error
    exit_status,    \* main: the process exit status, once pc = "exited"
    uncaught,       \* main (history): the exception that left main, if any
    prepare_lock,   \* plugin: the holder of _prepare_lock, "" when free
    prepared_track_dicts, \* plugin: _prepared_track_dicts, <<list>> or None
    prepare_error,  \* plugin: _prepare_error, <<message>> or None
    prep_pc,        \* plugin: where _prepare_and_send_track_thread stands
    prep_outcome,   \* plugin: what lines 125-140 will give (a list or an exception)
    prep_exc,       \* plugin: the exception caught at line 151, <<message>> or None
    click_pc,       \* plugin: where _on_send_button_clicked stands
    click_dicts,    \* plugin: the local `dicts` of the click handler
    click_err,      \* plugin: the local `err` of the click handler
    clicks,         \* plugin: number of clicks so far
    streams,        \* plugin: the calls of _udp_stream_dicts, [by, arg, next]
    telemetry_data, \* chunked sender: the record list to send
    payload_type,   \* chunked sender: PayloadType of the sender
    sent_payloads   \* chunked sender: the payloads handed to send_udp_payload

decodeVars == <<fai_file, parsed>>
dictVars == <<raw, nodes, include_walls, subsample, dicts>>
mainVars ==
    <<args, matches, disk, outIsFile, loop_i, outfs, writes, stdout_log, stderr_log,
      exit_status, uncaught>>
pluginVars ==
    <<prepare_lock, prepared_track_dicts, prepare_error, prep_pc, prep_outcome,
      prep_exc, click_pc, click_dicts, click_err, clicks, streams>>
chunkVars == <<telemetry_data, payload_type, sent_payloads>>
vars ==
    <<pc, fai_file, parsed, raw, nodes, include_walls, subsample, dicts, args,
      matches, disk, outIsFile, loop_i, outfs, writes, stdout_log, stderr_log,
      exit_status, uncaught, pluginVars, chunkVars>>

None == << >>

\* The variables of the plugin while the plugin is not loaded
PluginIdle ==
    /\ prepare_lock = ""
    /\ prepared_track_dicts = << >>
    /\ prepare_error = << >>
    /\ prep_pc = "idle"
    /\ prep_outcome = [raised |-> FALSE, error |-> "", dicts |-> << >>]
    /\ prep_exc = << >>
    /\ click_pc = "idle"
    /\ click_dicts = << >>
    /\ click_err = << >>
    /\ clicks = 0
    /\ streams = << >>

\* The variables of the chunked senders while none is running
ChunkIdle ==
    /\ telemetry_data = << >>
    /\ payload_type = ""
    /\ sent_payloads = << >>

\* The variables of main while main is not running
MainIdle ==
    /\ args = [out |-> << >>, format |-> "csv", walls |-> FALSE, subsample |-> 1,
               stdout |-> FALSE]
    /\ matches = << >>
    /\ disk = << >>
    /\ outIsFile = FALSE
    /\ loop_i = 0
    /\ outfs = << >>
    /\ writes = << >>
    /\ stdout_log = << >>
    /\ stderr_log = << >>
    /\ exit_status = 0
    /\ uncaught = << >>

-----------------------------------------------------------------------------
(* Bounds of the model *)

MaxLength == 2        \* largest `length` header field drawn
MaxExtraCount == 3    \* largest `extraCount` field drawn
MaxDetail == 1        \* most detail records physically present in a file
MaxNodes == 3         \* longest node list handed to nodes_to_dicts
MaxStride == 3        \* largest subsample stride drawn

-----------------------------------------------------------------------------
(* Fixed-point arithmetic standing for math.atan2 / degrees / cos / sin *)

Unit == 2 * 1000

F(n) == n * Unit

Sign(v) == IF v > 0 THEN 1 ELSE IF v < 0 THEN -1 ELSE 0

\* math.degrees(math.atan2(dy, dx)); exact where dy = 0, dx = 0 or |dy| = |dx|,
\* which is the case for every input the model draws.
Atan2Deg(dy, dx) ==
    LET sy == Sign(dy)
        sx == Sign(dx)
    IN  IF sy = 0 THEN (IF sx < 0 THEN 180 ELSE 0)
        ELSE IF sx = 0 THEN 90 * sy
        ELSE IF sx > 0 THEN 45 * sy
        ELSE 135 * sy

\* math.cos(angle * pi / 180) in units of 1/Unit, for multiples of 45 degrees
CosFx(angle) ==
    LET a == angle % 360
    IN  CASE a = 0 -> 2000
          [] a = 45 -> 1414
          [] a = 90 -> 0
          [] a = 135 -> -1414
          [] a = 180 -> -2000
          [] a = 225 -> -1414
          [] a = 270 -> 0
          [] a = 315 -> 1414

\* math.sin(angle * pi / 180) in units of 1/Unit
SinFx(angle) == CosFx(angle - 90)

\* src/fastlane_decoder.py:13-17
slideVec2d(point, angle, offset) ==
    LET x == point[1] + (CosFx(angle) * offset) \div Unit
        z == point[3] - (SinFx(angle) * offset) \div Unit
    IN  <<x, point[2], z>>

-----------------------------------------------------------------------------
(* TrackDetailNode.__init__, src/fastlane_decoder.py:19-41 *)

\* rawDetail[5] and rawDetail[6] raise IndexError on a tuple shorter than 7
WallProjectionRaises(rawDetail) == Len(rawDetail) < 7

TrackDetailNode(rawIdeal, prevRawIdeal, rawDetail) ==
    LET position == <<rawIdeal[1], rawIdeal[2], rawIdeal[3]>>
        direction == 0 - Atan2Deg(prevRawIdeal[3] - position[2],
                                  position[1] - prevRawIdeal[1])
    IN  IF WallProjectionRaises(rawDetail)
        THEN [id |-> rawIdeal[5], position |-> position, distance |-> rawIdeal[4],
              direction |-> direction,
              wallLeft |-> None, wallRight |-> None, trackCenter |-> position]
        ELSE LET wallLeft == slideVec2d(position, (0 - direction) + 90, rawDetail[6])
                 wallRight == slideVec2d(position, (0 - direction) - 90, rawDetail[7])
             IN  [id |-> rawIdeal[5], position |-> position, distance |-> rawIdeal[4],
                  direction |-> direction,
                  wallLeft |-> wallLeft, wallRight |-> wallRight,
                  trackCenter |-> <<(wallLeft[1] + wallRight[1]) \div 2,
                                    (wallLeft[2] + wallRight[2]) \div 2,
                                    (wallLeft[3] + wallRight[3]) \div 2>>]

-----------------------------------------------------------------------------
(* Files and buffer.read *)

FileSize(f) == 4 * Len(f.words) + f.tail

\* buffer.read(n) at byte offset pos (n a multiple of 4, pos word-aligned or
\* at end of file): the bytes obtained, the whole words among them, and the
\* offset afterwards.
Read(f, pos, n) ==
    LET left == FileSize(f) - pos
        got == IF left >= n THEN n ELSE IF left > 0 THEN left ELSE 0
        first == pos \div 4 + 1
    IN  [len |-> got,
         data |-> SubSeq(f.words, first, first + (got \div 4) - 1),
         pos |-> pos + got]

\* Python list indexing: rawIdeal[k] raises IndexError outside -len .. len-1
PyInRange(list, k) == (0 - Len(list)) <= k /\ k < Len(list)

PyIndex(list, k) == IF k >= 0 THEN list[k + 1] ELSE list[Len(list) + k + 1]

Zeros(n) == [j \in 1..n |-> 0]

-----------------------------------------------------------------------------
(* getNodesFromFastLane, src/fastlane_decoder.py:43-88 *)

\* What the call produces.  raised = TRUE is the RuntimeError of line 88 (the
\* caller gets no list); otherwise nodes is the returned list.  extraCount and
\* skipped are history fields: the count read at lines 64-68 and the number of
\* detail records dropped by the handler of lines 82-84.
Failure(msg) ==
    [raised |-> TRUE, error |-> msg, nodes |-> << >>, extraCount |-> 0, skipped |-> 0]

Success(nodeList, extraCount, skipped) ==
    [raised |-> FALSE, error |-> "", nodes |-> nodeList,
     extraCount |-> extraCount, skipped |-> skipped]

\* ReadRawIdeal leaving the loop at a short record instead of raising
RECURSIVE ReadRawIdeal_StopAtShortRead(_, _, _, _, _)
ReadRawIdeal_StopAtShortRead(f, pos, i, length, rawIdeal) ==
    IF i >= length
    THEN [raised |-> FALSE, pos |-> pos, rawIdeal |-> rawIdeal]
    ELSE LET rec == Read(f, pos, 4 * 5)
         IN  IF rec.len < 20
             THEN [raised |-> FALSE, pos |-> rec.pos, rawIdeal |-> rawIdeal]
             ELSE ReadRawIdeal_StopAtShortRead(f, rec.pos, i + 1, length,
                                               Append(rawIdeal, rec.data))

\* lines 55-61: the loop reading `length` rawIdeal entries from offset pos
RECURSIVE ReadRawIdeal(_, _, _, _, _)
ReadRawIdeal(f, pos, i, length, rawIdeal) ==
    IF i >= length
    THEN [raised |-> FALSE, pos |-> pos, rawIdeal |-> rawIdeal]
    ELSE LET rec == Read(f, pos, 4 * 5)
         IN  IF rec.len < 20
             THEN [raised |-> TRUE, pos |-> rec.pos, rawIdeal |-> rawIdeal]
             ELSE ReadRawIdeal(f, rec.pos, i + 1, length, Append(rawIdeal, rec.data))

\* ReadExtraCount taking a missing extraCount for one record
ReadExtraCount_DefaultOne(f, pos) ==
    LET extraCountBytes == Read(f, pos, 4)
    IN  [pos |-> extraCountBytes.pos,
         extraCount |-> IF extraCountBytes.len < 4 THEN 1 ELSE extraCountBytes.data[1]]

\* lines 64-68: extraCount, 0 when fewer than 4 bytes are left
ReadExtraCount(f, pos) ==
    LET extraCountBytes == Read(f, pos, 4)
    IN  [pos |-> extraCountBytes.pos,
         extraCount |-> IF extraCountBytes.len < 4 THEN 0 ELSE extraCountBytes.data[1]]

\* PrevIndex without the wrap to the last sample: sample 0 is its own
\* predecessor
PrevIndex_NoWrap(i, length) == IF i > 0 THEN i - 1 ELSE 0

\* line 71: the index of the previous ideal sample
PrevIndex(i, length) == IF i > 0 THEN i - 1 ELSE length - 1

\* lines 74-79: one rawDetail block, zeros on a short read
ReadRawDetail(f, pos) ==
    LET rawDetailBytes == Read(f, pos, 4 * 18)
    IN  [pos |-> rawDetailBytes.pos,
         len |-> rawDetailBytes.len,
         rawDetail |-> IF rawDetailBytes.len < 4 * 18 THEN Zeros(18)
                       ELSE rawDetailBytes.data]

\* DetailLoop leaving the loop at a short rawDetail block instead of
\* substituting zeros
RECURSIVE DetailLoop_StopAtShortRead(_, _, _, _, _, _, _, _)
DetailLoop_StopAtShortRead(f, pos, i, extraCount, length, rawIdeal, nodeList, skipped) ==
    IF i >= extraCount
    THEN Success(nodeList, extraCount, skipped)
    ELSE IF ~PyInRange(rawIdeal, PrevIndex(i, length))
    THEN Failure("list index out of range")
    ELSE LET prevRawIdeal == PyIndex(rawIdeal, PrevIndex(i, length))
             d == ReadRawDetail(f, pos)
         IN  IF d.len < 4 * 18
             THEN Success(nodeList, extraCount, skipped)
             ELSE IF ~PyInRange(rawIdeal, i)
             THEN DetailLoop_StopAtShortRead(f, d.pos, i + 1, extraCount, length,
                                             rawIdeal, nodeList, skipped + 1)
             ELSE DetailLoop_StopAtShortRead(f, d.pos, i + 1, extraCount, length,
                                             rawIdeal,
                                             Append(nodeList,
                                                    TrackDetailNode(PyIndex(rawIdeal, i),
                                                                    prevRawIdeal,
                                                                    d.rawDetail)),
                                             skipped)

\* lines 70-84: the loop over range(extraCount).  Line 71 is outside the inner
\* try, so an IndexError there leaves the loop and reaches line 87; an
\* IndexError at rawIdeal[i] (line 80) is caught at line 82 and the record is
\* skipped.
RECURSIVE DetailLoop(_, _, _, _, _, _, _, _)
DetailLoop(f, pos, i, extraCount, length, rawIdeal, nodeList, skipped) ==
    IF i >= extraCount
    THEN Success(nodeList, extraCount, skipped)
    ELSE IF ~PyInRange(rawIdeal, PrevIndex(i, length))
    THEN Failure("list index out of range")
    ELSE LET prevRawIdeal == PyIndex(rawIdeal, PrevIndex(i, length))
             d == ReadRawDetail(f, pos)
         IN  IF ~PyInRange(rawIdeal, i)
             THEN DetailLoop(f, d.pos, i + 1, extraCount, length, rawIdeal,
                             nodeList, skipped + 1)
             ELSE DetailLoop(f, d.pos, i + 1, extraCount, length, rawIdeal,
                             Append(nodeList,
                                    TrackDetailNode(PyIndex(rawIdeal, i),
                                                    prevRawIdeal, d.rawDetail)),
                             skipped)

getNodesFromFastLane(f) ==
    LET header_data == Read(f, 0, 4 * 4)
    IN  IF header_data.len < 16
        THEN Failure("File too short or invalid header.")
        ELSE LET length == header_data.data[2]
                 ideal == ReadRawIdeal(f, header_data.pos, 0, length, << >>)
             IN  IF ideal.raised
                 THEN Failure("Unexpected end of file while reading rawIdeal.")
                 ELSE LET ec == ReadExtraCount(f, ideal.pos)
                      IN  DetailLoop(f, ec.pos, 0, ec.extraCount, length,
                                     ideal.rawIdeal, << >>, 0)

-----------------------------------------------------------------------------
(* The files the model draws *)

\* rawIdeal entries (x, y, z, distance, id)
IdealVals ==
    { <<F(0), F(0), F(0), F(0), 100>>,
      <<F(1), F(0), F(1), F(5), 101>>,
      <<F(1), F(1), F(0), F(7), 102>> }

\* rawDetail blocks: 18 floats, wall offsets at (0-based) indices 5 and 6
DetailOf(left, right) ==
    [j \in 1..18 |-> IF j = 6 THEN left ELSE IF j = 7 THEN right ELSE 0]

DetailVals == { DetailOf(F(0), F(0)), DetailOf(F(2), F(4)) }

RECURSIVE Flatten(_)
Flatten(recs) == IF recs = << >> THEN << >> ELSE Head(recs) \o Flatten(Tail(recs))

\* The words of a complete file, laid out as in the format
FileWords(length, ideals, extraCount, details) ==
    <<1, length, 0, 0>> \o Flatten(ideals) \o <<extraCount>> \o Flatten(details)

\* The file cut after `cut` bytes
Truncate(words, cut) ==
    [words |-> SubSeq(words, 1, cut \div 4), tail |-> cut % 4]

\* Cut points: the end of the file, the end of every record, and a point
\* inside every record (10 bytes into the header, 2 bytes into extraCount,
\* 8 bytes into an ideal record, 36 bytes into a detail record).
CutPoints(nIdeal, nDetail) ==
    LET idealEnd == 16 + 20 * nIdeal
        detailStart == idealEnd + 4
    IN  {0, 10, 16}
        \cup { 16 + 20 * k : k \in 1..nIdeal }
        \cup { 16 + 20 * (k - 1) + 8 : k \in 1..nIdeal }
        \cup { idealEnd + 2, detailStart }
        \cup { detailStart + 72 * k : k \in 1..nDetail }
        \cup { detailStart + 72 * (k - 1) + 36 : k \in 1..nDetail }

Max0(n) == IF n > 0 THEN n ELSE 0

\* The files with header field `length` and `nDetail` detail records present
FilesOf(length, nDetail) ==
    { Truncate(FileWords(length, c[1], c[2], c[3]), c[4]) :
        c \in [1..Max0(length) -> IdealVals]
              \X ((0 - 1)..MaxExtraCount)
              \X [1..nDetail -> DetailVals]
              \X CutPoints(Max0(length), nDetail) }

FaiFiles ==
    UNION { FilesOf(p[1], p[2]) : p \in ((0 - 1)..MaxLength) \X (0..MaxDetail) }

-----------------------------------------------------------------------------
(* Specification of the reader: a file is drawn, then decoded *)

InitDecode ==
    /\ PluginIdle
    /\ ChunkIdle
    /\ pc = "start"
    /\ fai_file \in FaiFiles
    /\ parsed = Failure("")
    /\ raw = << >>
    /\ nodes = << >>
    /\ include_walls = FALSE
    /\ subsample = 1
    /\ dicts = << >>
    /\ MainIdle

CallGetNodes ==
    /\ pc = "start"
    /\ pc' = "done"
    /\ parsed' = getNodesFromFastLane(fai_file)
    /\ UNCHANGED <<pluginVars, chunkVars, fai_file, dictVars, mainVars>>

NextDecode == CallGetNodes

SpecDecode == InitDecode /\ [][NextDecode]_vars

-----------------------------------------------------------------------------
(* Claims about getNodesFromFastLane *)

\* The fields of the drawn file, read off its layout
HeaderPresent(f) == FileSize(f) >= 16

LengthField(f) == f.words[2]

IdealBlockEnd(f) == 16 + 20 * Max0(LengthField(f))

IdealBlockPresent(f) == HeaderPresent(f) /\ FileSize(f) >= IdealBlockEnd(f)

ExtraCountField(f) ==
    IF FileSize(f) >= IdealBlockEnd(f) + 4
    THEN f.words[IdealBlockEnd(f) \div 4 + 1]
    ELSE 0

\* Detail record i (0-based) is wholly in the file
DetailPresent(f, i) == FileSize(f) >= IdealBlockEnd(f) + 4 + 72 * (i + 1)

\* C2, as stated: when the header and the `length` ideal records are fully
\* present, getNodesFromFastLane returns a node list instead of raising, for
\* every value of length and extraCount and any number of detail bytes.
C2_DetailFailureNeverAborts ==
    (pc = "done" /\ IdealBlockPresent(fai_file)) => ~parsed.raised

\* C3, as stated: for every successfully parsed file the number of nodes
\* equals extraCount minus the number of detail records skipped.
C3_NodeCountIsExtraCountMinusSkipped ==
    (pc = "done" /\ ~parsed.raised) =>
        Len(parsed.nodes) = ExtraCountField(fai_file) - parsed.skipped

\* C3, amended: for every successfully parsed file the number of nodes equals
\* max(extraCount, 0) minus the number of detail records skipped (a negative
\* extraCount yields no node); a detail record with fewer than 72 bytes left
\* is replaced by zeros and still produces a node (its walls sit on its
\* position), so with 0 <= extraCount <= length the node count is exactly
\* extraCount however many detail bytes the file holds.
C3_NodeCount ==
    (pc = "done" /\ ~parsed.raised) =>
        LET ec == ExtraCountField(fai_file)
        IN  /\ parsed.extraCount = ec
            /\ Len(parsed.nodes) = Max0(ec) - parsed.skipped
            /\ (0 <= ec /\ ec <= LengthField(fai_file))
                  => Len(parsed.nodes) = ec /\ parsed.skipped = 0
            /\ \A j \in 1..Len(parsed.nodes) :
                  ~DetailPresent(fai_file, j - 1)
                  => /\ parsed.nodes[j].wallLeft = parsed.nodes[j].position
                     /\ parsed.nodes[j].wallRight = parsed.nodes[j].position

\* A successful parse of two or more nodes, the first from a detail record
\* in the file, the last from a record the file no longer holds
C3_Witness ==
    /\ pc = "done"
    /\ ~parsed.raised
    /\ Len(parsed.nodes) >= 2
    /\ DetailPresent(fai_file, 0)
    /\ ~DetailPresent(fai_file, Len(parsed.nodes) - 1)

\* The ideal block is cut short: the header is there, a record is missing
IdealBlockTruncated(f) == HeaderPresent(f) /\ FileSize(f) < IdealBlockEnd(f)

\* C10: with fewer than 16 header bytes, or with fewer than 20 bytes for one
\* of the `length` ideal records, getNodesFromFastLane fails with an error
\* and hands back no node.
C10_StructuralTruncationFails ==
    (pc = "done" /\ (~HeaderPresent(fai_file) \/ IdealBlockTruncated(fai_file)))
        => /\ parsed.raised
           /\ parsed.nodes = << >>
           /\ parsed.error = (IF HeaderPresent(fai_file)
                              THEN "Unexpected end of file while reading rawIdeal."
                              ELSE "File too short or invalid header.")

\* An ideal block cut inside its second record
C10_Witness ==
    /\ pc = "done"
    /\ IdealBlockTruncated(fai_file)
    /\ FileSize(fai_file) > 16 + 20
    /\ parsed.raised

\* C11: when the file ends after a complete ideal block with fewer than 4
\* bytes left for extraCount, extraCount is taken as 0 and
\* getNodesFromFastLane returns an empty node list without raising, whatever
\* the value of length (0 and negative values included).
C11_MissingExtraCountIsZero ==
    (/\ pc = "done"
     /\ IdealBlockPresent(fai_file)
     /\ FileSize(fai_file) < IdealBlockEnd(fai_file) + 4)
        => /\ ~parsed.raised
           /\ parsed.extraCount = 0
           /\ parsed.nodes = << >>
           /\ parsed.skipped = 0

\* A file with two ideal records that ends 2 bytes into extraCount, decoded
C11_Witness ==
    /\ pc = "done"
    /\ IdealBlockPresent(fai_file)
    /\ LengthField(fai_file) = 2
    /\ FileSize(fai_file) = IdealBlockEnd(fai_file) + 2
    /\ ~parsed.raised
    /\ parsed.nodes = << >>

\* Ideal record k (0-based) as it stands in the file
IdealAt(f, k) == SubSeq(f.words, 4 + 5 * k + 1, 4 + 5 * k + 5)

\* Detail record k (0-based) as it stands in the file, zeros when cut
DetailAt(f, k) ==
    IF DetailPresent(f, k)
    THEN SubSeq(f.words, IdealBlockEnd(f) \div 4 + 1 + 18 * k + 1,
                         IdealBlockEnd(f) \div 4 + 1 + 18 * k + 18)
    ELSE Zeros(18)

\* C15: in a successful parse the node of detail index i is built from ideal
\* record i as current sample and from ideal record i-1 as previous sample
\* when i > 0, from ideal record length-1 when i = 0; the previous record is
\* always one of the file's `length` ideal records.
C15_NodeFromCurrentAndPreviousSample ==
    (pc = "done" /\ ~parsed.raised) =>
        \A j \in 1..Len(parsed.nodes) :
            LET i == j - 1
                length == LengthField(fai_file)
                prev == IF i > 0 THEN i - 1 ELSE length - 1
            IN  /\ 0 <= i /\ i < length
                /\ 0 <= prev /\ prev < length
                /\ parsed.nodes[j] = TrackDetailNode(IdealAt(fai_file, i),
                                                     IdealAt(fai_file, prev),
                                                     DetailAt(fai_file, i))
                /\ parsed.nodes[j].id = IdealAt(fai_file, i)[5]
                /\ parsed.nodes[j].direction =
                      0 - Atan2Deg(IdealAt(fai_file, prev)[3] - IdealAt(fai_file, i)[2],
                                   IdealAt(fai_file, i)[1] - IdealAt(fai_file, prev)[1])

\* Two nodes from two different ideal records: node 0 takes its direction
\* from the last record, which differs from the one record 0 would give
C15_Witness ==
    /\ pc = "done"
    /\ ~parsed.raised
    /\ Len(parsed.nodes) = 2
    /\ LengthField(fai_file) = 2
    /\ IdealAt(fai_file, 0) # IdealAt(fai_file, 1)
    /\ parsed.nodes[1].direction
          # TrackDetailNode(IdealAt(fai_file, 0), IdealAt(fai_file, 0),
                            DetailAt(fai_file, 0)).direction

-----------------------------------------------------------------------------
(* nodes_to_dicts, src/fastlane_decoder.py:90-133 *)

Some(v) == <<v>>

\* lines 97, 112, 123: x, z = z, -x
Rotate(p) == <<p[3], p[2], 0 - p[1]>>

\* WallItems without the rotation of lines 112 and 123
WallItems_NoRotation(wall, kx, ky, kz) ==
    IF wall # << >>
    THEN << <<kx, <<wall[1]>> >>, <<ky, <<wall[2]>> >>, <<kz, <<wall[3]>> >> >>
    ELSE << <<kx, << >> >>, <<ky, << >> >>, <<kz, << >> >> >>

\* WallItems adding nothing for an absent wall
WallItems_OmitAbsent(wall, kx, ky, kz) ==
    IF wall # None
    THEN LET w == Rotate(wall)
         IN  << <<kx, Some(w[1])>>, <<ky, Some(w[2])>>, <<kz, Some(w[3])>> >>
    ELSE << >>

\* lines 110-119 and 121-130: the three items d.update adds for one wall
WallItems(wall, kx, ky, kz) ==
    IF wall # None
    THEN LET w == Rotate(wall)
         IN  << <<kx, Some(w[1])>>, <<ky, Some(w[2])>>, <<kz, Some(w[3])>> >>
    ELSE << <<kx, None>>, <<ky, None>>, <<kz, None>> >>

\* IndexField counting from one
IndexField_OneBased(idx) == idx + 1

\* line 100: the value stored under "index" for the node at position idx
IndexField(idx) == idx

\* lines 96-130: the dict built for node n at position idx
NodeDict(n, idx, walls) ==
    LET p == Rotate(n.position)
        d == << <<"index", Some(IndexField(idx))>>,
                <<"id", Some(n.id)>>,
                <<"x", Some(p[1])>>,
                <<"y", Some(p[2])>>,
                <<"z", Some(p[3])>>,
                <<"distance", Some(n.distance)>>,
                <<"direction", Some(n.direction)>> >>
    IN  IF walls
        THEN d \o WallItems(n.wallLeft, "wallLeft_x", "wallLeft_y", "wallLeft_z")
               \o WallItems(n.wallRight, "wallRight_x", "wallRight_y", "wallRight_z")
        ELSE d

\* line 179: max(1, args.subsample), the stride the CLI hands to
\* nodes_to_dicts
Clamp(n) == IF n < 1 THEN 1 ELSE n

\* Retained counting positions from one: every N-th node, the first dropped
Retained_OneBased(idx, stride) == (idx + 1) % stride = 0

\* line 93: the node at position idx is kept
Retained(idx, stride) == idx % stride = 0

\* lines 91-133: the loop over enumerate(nodes), from position idx on
RECURSIVE DictsFrom(_, _, _, _)
DictsFrom(nodeList, idx, walls, stride) ==
    IF idx >= Len(nodeList) THEN << >>
    ELSE IF ~Retained(idx, stride)
    THEN DictsFrom(nodeList, idx + 1, walls, stride)
    ELSE <<NodeDict(nodeList[idx + 1], idx, walls)>>
         \o DictsFrom(nodeList, idx + 1, walls, stride)

nodes_to_dicts(nodeList, walls, stride) == DictsFrom(nodeList, 0, walls, stride)

\* dict access
Keys(d) == [j \in 1..Len(d) |-> d[j][1]]

HasKey(d, key) == \E j \in 1..Len(d) : d[j][1] = key

Get(d, key) == d[CHOOSE j \in 1..Len(d) : d[j][1] = key][2]

WallKeys ==
    <<"wallLeft_x", "wallLeft_y", "wallLeft_z",
      "wallRight_x", "wallRight_y", "wallRight_z">>

-----------------------------------------------------------------------------
(* Specification of the transform: a node list is drawn, then converted *)

\* A rawDetail tuple too short to hold index 6: the wall projection raises
ShortDetail == Zeros(3)

\* The constructor arguments the model draws
RawVals ==
    { [rawIdeal |-> c[1], prevRawIdeal |-> <<F(0), F(0), F(0), F(0), 100>>,
       rawDetail |-> c[2]] :
        c \in { <<F(0), F(0), F(0), F(0), 100>>, <<F(1), F(0), F(1), F(5), 101>> }
              \X { DetailOf(F(0), F(0)), DetailOf(F(2), F(4)), ShortDetail } }

RawLists == UNION { [1..n -> RawVals] : n \in 0..MaxNodes }

InitDicts ==
    /\ PluginIdle
    /\ ChunkIdle
    /\ pc = "start"
    /\ fai_file = Truncate(<< >>, 0)
    /\ parsed = Failure("")
    /\ raw \in RawLists
    /\ nodes = << >>
    /\ include_walls \in BOOLEAN
    /\ subsample \in 1..MaxStride
    /\ dicts = << >>
    /\ MainIdle

\* One TrackDetailNode per triple
Derive ==
    /\ pc = "start"
    /\ pc' = "derived"
    /\ nodes' = [j \in 1..Len(raw) |->
                    TrackDetailNode(raw[j].rawIdeal, raw[j].prevRawIdeal,
                                    raw[j].rawDetail)]
    /\ UNCHANGED <<pluginVars, chunkVars, decodeVars, raw, include_walls, subsample, dicts, mainVars>>

CallNodesToDicts ==
    /\ pc = "derived"
    /\ pc' = "done"
    /\ dicts' = nodes_to_dicts(nodes, include_walls, subsample)
    /\ UNCHANGED <<pluginVars, chunkVars, decodeVars, raw, nodes, include_walls, subsample, mainVars>>

NextDicts == Derive \/ CallNodesToDicts

SpecDicts == InitDicts /\ [][NextDicts]_vars

-----------------------------------------------------------------------------
(* Claims about nodes_to_dicts and the node derivation *)

\* The output record of the retained node at position idx
RecordOf(idx) == dicts[idx \div subsample + 1]

RetainedPositions == { idx \in 0..(Len(nodes) - 1) : idx % subsample = 0 }

\* C1, as stated: the `index` field of the k-th record returned by
\* nodes_to_dicts is k, its position among the retained records (dense and
\* zero-based), not the original node index.
C1_IndexIsRetainedPosition ==
    pc = "done" =>
        \A k \in 1..Len(dicts) : Get(dicts[k], "index") = Some(k - 1)

\* C1, amended: the `index` field of the k-th record (k = 0, 1, ...) is k * N,
\* the position of its node in the node list handed in; the values are dense
\* only for stride 1.
C1_IndexIsOriginalPosition ==
    pc = "done" =>
        /\ Len(dicts) = Cardinality(RetainedPositions)
        /\ \A k \in 1..Len(dicts) :
              Get(dicts[k], "index") = Some((k - 1) * subsample)

C1_Witness ==
    pc = "done" /\ subsample >= 2 /\ Len(dicts) >= 2

ZeroFilledAt56(rawDetail) ==
    Len(rawDetail) >= 7 /\ rawDetail[6] = 0 /\ rawDetail[7] = 0

AllWallFieldsNull(d) == \A j \in 1..6 : HasKey(d, WallKeys[j]) /\ Get(d, WallKeys[j]) = None

\* C4, as stated: a node whose wall projection fails or whose detail record is
\* zero at indices 5 and 6 has trackCenter = position and, with walls
\* requested, six null wall fields in its output record.
C4_NullWallsOnFailureOrZeroFill ==
    pc = "done" =>
        \A idx \in RetainedPositions :
            (WallProjectionRaises(raw[idx + 1].rawDetail)
               \/ ZeroFilledAt56(raw[idx + 1].rawDetail))
            => /\ nodes[idx + 1].trackCenter = nodes[idx + 1].position
               /\ include_walls => AllWallFieldsNull(RecordOf(idx))

\* C4, amended: every node gets a record (nothing raises); a node whose wall
\* projection fails has trackCenter = position, absent walls and, with walls
\* requested, six null wall fields; a node whose detail record is zero at
\* indices 5 and 6 has trackCenter = position too, but its walls are present
\* and equal to position, so with walls requested its six wall fields hold
\* the rotated position, not null.
C4_WallFallback ==
    pc = "done" =>
        /\ Len(dicts) = Cardinality(RetainedPositions)
        /\ \A idx \in RetainedPositions :
            LET n == nodes[idx + 1]
                d == RecordOf(idx)
                p == Rotate(n.position)
            IN  /\ WallProjectionRaises(raw[idx + 1].rawDetail)
                   => /\ n.trackCenter = n.position
                      /\ n.wallLeft = None /\ n.wallRight = None
                      /\ include_walls => AllWallFieldsNull(d)
                /\ ZeroFilledAt56(raw[idx + 1].rawDetail)
                   => /\ n.trackCenter = n.position
                      /\ n.wallLeft = n.position /\ n.wallRight = n.position
                      /\ include_walls =>
                           /\ Get(d, "wallLeft_x") = Some(p[1])
                           /\ Get(d, "wallLeft_y") = Some(p[2])
                           /\ Get(d, "wallLeft_z") = Some(p[3])
                           /\ Get(d, "wallRight_x") = Some(p[1])
                           /\ Get(d, "wallRight_y") = Some(p[2])
                           /\ Get(d, "wallRight_z") = Some(p[3])

C4_Witness ==
    /\ pc = "done"
    /\ include_walls
    /\ \E idx \in RetainedPositions : WallProjectionRaises(raw[idx + 1].rawDetail)
    /\ \E idx \in RetainedPositions :
          /\ ZeroFilledAt56(raw[idx + 1].rawDetail)
          /\ nodes[idx + 1].position # <<0, 0, 0>>

\* The node behind the k-th output record (k from 1) when the retained
\* positions are 0, N, 2N, ...
NodeOfRecord(k) == nodes[(k - 1) * subsample + 1]

\* C12: for a node list of length n and a stride N >= 1, nodes_to_dicts
\* returns one record per position of {0, N, 2N, ...} below n and no other:
\* the k-th record (k = 0, 1, ...) is the record of the node at position
\* k * N, so the order of the nodes is kept; stride 1 keeps every node.  The
\* stride the CLI passes is at least 1, and is the requested one when that
\* is at least 1.
C12_RetainsEveryNthNode ==
    pc = "done" =>
        /\ Len(dicts) = Cardinality({ idx \in 0..(Len(nodes) - 1) :
                                        \E m \in 0..Len(nodes) : idx = m * subsample })
        /\ \A k \in 1..Len(dicts) :
              /\ (k - 1) * subsample < Len(nodes)
              /\ dicts[k] = NodeDict(NodeOfRecord(k), (k - 1) * subsample, include_walls)
              /\ Get(dicts[k], "id") = Some(NodeOfRecord(k).id)
              /\ Get(dicts[k], "distance") = Some(NodeOfRecord(k).distance)
        /\ subsample = 1 => Len(dicts) = Len(nodes)
        /\ \A n \in (0 - MaxStride)..MaxStride :
              Clamp(n) >= 1 /\ (n >= 1 => Clamp(n) = n)

\* Three nodes with stride 2: positions 0 and 2 are kept, position 1, a
\* node unlike its neighbours, is dropped
C12_Witness ==
    /\ pc = "done"
    /\ subsample = 2
    /\ Len(nodes) = 3
    /\ Len(dicts) = 2
    /\ nodes[2] # nodes[1] /\ nodes[2] # nodes[3]

BaseKeys == <<"index", "id", "x", "y", "z", "distance", "direction">>

\* C13: the records of one call all have the same keys in the same order:
\* the seven base fields alone when walls are excluded, the seven base fields
\* followed by the six wall fields when walls are included; a wall field of a
\* node without that wall holds null and is not left out.
C13_UniformFieldSet ==
    pc = "done" =>
        \A k \in 1..Len(dicts) :
            /\ Keys(dicts[k]) = Keys(dicts[1])
            /\ ~include_walls
                  => /\ Keys(dicts[k]) = BaseKeys
                     /\ \A j \in 1..6 : ~HasKey(dicts[k], WallKeys[j])
            /\ include_walls
                  => /\ Keys(dicts[k]) = BaseKeys \o WallKeys
                     /\ \A j \in 1..3 :
                           (Get(dicts[k], WallKeys[j]) = None)
                              <=> (NodeOfRecord(k).wallLeft = None)
                     /\ \A j \in 4..6 :
                           (Get(dicts[k], WallKeys[j]) = None)
                              <=> (NodeOfRecord(k).wallRight = None)

\* Walls included, one record of a node without walls next to one of a node
\* with walls
C13_Witness ==
    /\ pc = "done"
    /\ include_walls
    /\ \E k \in 1..Len(dicts) : NodeOfRecord(k).wallLeft = None
    /\ \E k \in 1..Len(dicts) : NodeOfRecord(k).wallLeft # None

-----------------------------------------------------------------------------
(* The writers, src/fastlane_decoder.py:135-155.  A writer's effect is what   *)
(* it prints, whether it opens its file for writing (creating or truncating  *)
(* it) and what it writes.  The text format prints floats with six decimals, *)
(* which keeps every value of the model's 1/Unit grid as it is.              *)

Line(kind, path, data) == [kind |-> kind, path |-> path, data |-> data]

TxtLines(ds) == [j \in 1..Len(ds) |-> <<Get(ds[j], "x"), Get(ds[j], "z")>>]

\* lines 135-145
write_csv(ds, out_file) ==
    IF ds = << >>
    THEN [opens |-> FALSE, content |-> << >>,
          prints |-> <<Line("No data to write.", << >>, << >>)>>]
    ELSE [opens |-> TRUE,
          content |-> [format |-> "csv", header |-> Keys(ds[1]), rows |-> ds],
          prints |-> << >>]

\* lines 147-149
write_json(ds, out_file) ==
    [opens |-> TRUE,
     content |-> [format |-> "json", header |-> << >>, rows |-> ds],
     prints |-> << >>]

\* lines 151-155
write_txt(ds, out_file) ==
    [opens |-> TRUE,
     content |-> [format |-> "txt", header |-> << >>, rows |-> TxtLines(ds)],
     prints |-> << >>]

-----------------------------------------------------------------------------
(* main, src/fastlane_decoder.py:157-223.  A path is the tuple of its parts: *)
(* an input is <<directory, stem, extension>>, the -o argument is <<name>>.  *)

\* The inputs a glob may match; two of them share a basename
InputPaths ==
    { <<"a", "fast_lane", ".ai">>, <<"a", "lap", ".ai">>, <<"b", "fast_lane", ".ai">> }

\* Lexical order of the strings that occur in input paths
Rank(str) ==
    CASE str = ".ai" -> 0
      [] str = "a" -> 1
      [] str = "b" -> 2
      [] str = "fast_lane" -> 3
      [] str = "lap" -> 4

\* p < q as sorted() compares the two path strings
PathLess(p, q) ==
    \/ Rank(p[1]) < Rank(q[1])
    \/ p[1] = q[1] /\ Rank(p[2]) < Rank(q[2])
    \/ p[1] = q[1] /\ p[2] = q[2] /\ Rank(p[3]) < Rank(q[3])

RECURSIVE Insert(_, _)
Insert(p, sortedList) ==
    IF sortedList = << >> THEN <<p>>
    ELSE IF PathLess(p, Head(sortedList)) THEN <<p>> \o sortedList
    ELSE <<Head(sortedList)>> \o Insert(p, Tail(sortedList))

\* line 172: sorted(matches)
RECURSIVE Sorted(_)
Sorted(list) == IF list = << >> THEN << >> ELSE Insert(Head(list), Sorted(Tail(list)))

\* ToStdout without the test of args.out: a single match always goes to
\* standard output
ToStdout_IgnoreOut == args.stdout \/ Len(matches) = 1

\* line 182
ToStdout == args.stdout \/ (args.out = None /\ Len(matches) = 1)

Cwd == <<".">>

\* lines 200-207: the directory of the outputs of a batch
OutDir == IF args.out = None THEN Cwd ELSE args.out

\* lines 198-215: the path the export of `path` is written to
OutFile(path) ==
    IF Len(matches) > 1
    THEN OutDir \o <<path[2], "_coords.", args.format>>
    ELSE IF args.out = None
    THEN <<path[1], path[2], "_coords.", args.format>>
    ELSE args.out

\* line 208: os.makedirs(out_dir, exist_ok=True) raises FileExistsError when
\* out_dir is an existing regular file
MakedirsRaises == Len(matches) > 1 /\ args.out # None /\ outIsFile

\* lines 217-222
Writer(ds, out_file) ==
    IF args.format = "json" THEN write_json(ds, out_file)
    ELSE IF args.format = "csv" THEN write_csv(ds, out_file)
    ELSE write_txt(ds, out_file)

\* lines 183-196: what the stdout branch prints
StdoutLines(ds) ==
    IF args.format = "json" THEN <<Line("json", << >>, ds)>>
    ELSE IF args.format = "csv"
    THEN (IF ds # << >>
          THEN <<Line("csv", << >>, [header |-> Keys(ds[1]), rows |-> ds])>>
          ELSE << >>)
    ELSE [j \in 1..Len(ds) |-> Line("txt", << >>, TxtLines(ds)[j])]

\* The file of the current iteration and what lines 174 and 179 make of it
CurrentPath == Sorted(matches)[loop_i]

Decoded(path) == getNodesFromFastLane(disk[path])

DictsOf(path) ==
    nodes_to_dicts(Decoded(path).nodes, args.walls, Clamp(args.subsample))

InLoop == pc = "loop" /\ loop_i <= Len(matches)

\* An exception nothing in main catches: traceback, exit status 1
Uncaught(what) ==
    /\ pc' = "exited"
    /\ exit_status' = 1
    /\ uncaught' = <<[src |-> CurrentPath, what |-> what]>>

\* lines 167-170
NoFilesMatched ==
    /\ pc = "start"
    /\ matches = << >>
    /\ stderr_log' = Append(stderr_log, Line("No files matched:", << >>, << >>))
    /\ exit_status' = 2
    /\ pc' = "exited"
    /\ UNCHANGED <<pluginVars, chunkVars, decodeVars, dictVars, args, matches, disk, outIsFile, loop_i,
                   outfs, writes, stdout_log, uncaught>>

\* line 172: the loop is entered
EnterLoop ==
    /\ pc = "start"
    /\ matches # << >>
    /\ pc' = "loop"
    /\ loop_i' = 1
    /\ UNCHANGED <<pluginVars, chunkVars, decodeVars, dictVars, args, matches, disk, outIsFile, outfs,
                   writes, stdout_log, stderr_log, exit_status, uncaught>>

\* lines 173-177: getNodesFromFastLane raised; print(e, file=sys.stderr); continue
DecodeFails ==
    /\ InLoop
    /\ Decoded(CurrentPath).raised
    /\ stderr_log' = Append(stderr_log,
                            Line(Decoded(CurrentPath).error, CurrentPath, << >>))
    /\ loop_i' = loop_i + 1
    /\ UNCHANGED <<pluginVars, chunkVars, pc, decodeVars, dictVars, args, matches, disk, outIsFile, outfs,
                   writes, stdout_log, exit_status, uncaught>>

\* lines 182-196
ExportToStdout ==
    /\ InLoop
    /\ ~Decoded(CurrentPath).raised
    /\ ToStdout
    /\ stdout_log' = stdout_log \o StdoutLines(DictsOf(CurrentPath))
    /\ loop_i' = loop_i + 1
    /\ UNCHANGED <<pluginVars, chunkVars, pc, decodeVars, dictVars, args, matches, disk, outIsFile, outfs,
                   writes, stderr_log, exit_status, uncaught>>

\* line 208 raises
MakedirsFails ==
    /\ InLoop
    /\ ~Decoded(CurrentPath).raised
    /\ ~ToStdout
    /\ MakedirsRaises
    /\ Uncaught("os.makedirs")
    /\ UNCHANGED <<pluginVars, chunkVars, decodeVars, dictVars, args, matches, disk, outIsFile, loop_i,
                   outfs, writes, stdout_log, stderr_log>>

\* lines 198-223 without an exception
ExportToFile ==
    /\ InLoop
    /\ ~Decoded(CurrentPath).raised
    /\ ~ToStdout
    /\ ~MakedirsRaises
    /\ LET out_file == OutFile(CurrentPath)
           w == Writer(DictsOf(CurrentPath), out_file)
       IN  /\ outfs' = IF w.opens
                       THEN [q \in (DOMAIN outfs) \cup {out_file} |->
                                IF q = out_file THEN w.content ELSE outfs[q]]
                       ELSE outfs
           /\ writes' = IF w.opens
                        THEN Append(writes, [src |-> CurrentPath, out_file |-> out_file])
                        ELSE writes
           /\ stdout_log' = stdout_log \o w.prints
                              \o <<Line("Wrote:", out_file, << >>)>>
    /\ loop_i' = loop_i + 1
    /\ UNCHANGED <<pluginVars, chunkVars, pc, decodeVars, dictVars, args, matches, disk, outIsFile,
                   stderr_log, exit_status, uncaught>>

\* lines 141, 148, 152: open(out_file, "w") raises OSError
OpenFails ==
    /\ InLoop
    /\ ~Decoded(CurrentPath).raised
    /\ ~ToStdout
    /\ ~MakedirsRaises
    /\ Writer(DictsOf(CurrentPath), OutFile(CurrentPath)).opens
    /\ Uncaught("open")
    /\ UNCHANGED <<pluginVars, chunkVars, decodeVars, dictVars, args, matches, disk, outIsFile, loop_i,
                   outfs, writes, stdout_log, stderr_log>>

\* the loop is over: main returns
Finish ==
    /\ pc = "loop"
    /\ loop_i > Len(matches)
    /\ pc' = "exited"
    /\ exit_status' = 0
    /\ UNCHANGED <<pluginVars, chunkVars, decodeVars, dictVars, args, matches, disk, outIsFile, loop_i,
                   outfs, writes, stdout_log, stderr_log, uncaught>>

\* The input files of a batch: a file cut inside its header, a file that ends
\* after its ideal block (no node), a file of two nodes
SampleFiles ==
    { Truncate(FileWords(1, << <<F(0), F(0), F(0), F(0), 100>> >>, 1, << >>), 10),
      Truncate(FileWords(1, << <<F(0), F(0), F(0), F(0), 100>> >>, 0, << >>), 36),
      Truncate(FileWords(2, << <<F(0), F(0), F(0), F(0), 100>>,
                               <<F(1), F(0), F(1), F(5), 101>> >>,
                         2, << DetailOf(F(2), F(4)) >>), 132) }

\* glob.glob returns each match once, in no particular order
MatchLists ==
    { m \in UNION { [1..n -> InputPaths] : n \in 0..Cardinality(InputPaths) } :
        \A j, k \in 1..Len(m) : j # k => m[j] # m[k] }

Range(seq) == { seq[j] : j \in 1..Len(seq) }

InitMain ==
    /\ PluginIdle
    /\ ChunkIdle
    /\ pc = "start"
    /\ fai_file = Truncate(<< >>, 0)
    /\ parsed = Failure("")
    /\ raw = << >>
    /\ nodes = << >>
    /\ include_walls = FALSE
    /\ subsample = 1
    /\ dicts = << >>
    /\ args \in [out : {None, <<"out">>}, format : {"csv", "json", "txt"},
                 walls : BOOLEAN, subsample : {0, 2}, stdout : BOOLEAN]
    /\ matches \in MatchLists
    /\ disk \in [Range(matches) -> SampleFiles]
    /\ outIsFile \in (IF args.out = None THEN {FALSE} ELSE BOOLEAN)
    /\ loop_i = 0
    /\ outfs = << >>
    /\ writes = << >>
    /\ stdout_log = << >>
    /\ stderr_log = << >>
    /\ exit_status = 0
    /\ uncaught = << >>

NextMain ==
    \/ NoFilesMatched
    \/ EnterLoop
    \/ DecodeFails
    \/ ExportToStdout
    \/ MakedirsFails
    \/ ExportToFile
    \/ OpenFails
    \/ Finish

SpecMain == InitMain /\ [][NextMain]_vars

-----------------------------------------------------------------------------
(* Claims about main *)

DecodesOk(path) == ~Decoded(path).raised

NoOverwrite ==
    \A j, k \in 1..Len(writes) : j # k => writes[j].out_file # writes[k].out_file

\* C5, as stated, for batches whose exports are all non-empty: when more than
\* one file matched and output goes to files, after the batch the number of
\* output files equals the number of matches that decoded, and no match's
\* output was overwritten by a later match.
C5_OneOutputFilePerMatch ==
    (/\ pc = "exited"
     /\ exit_status = 0
     /\ Len(matches) > 1
     /\ ~ToStdout
     /\ \A q \in Range(matches) : DecodesOk(q) => DictsOf(q) # << >>)
    => /\ Cardinality(DOMAIN outfs)
            = Cardinality({ q \in Range(matches) : DecodesOk(q) })
       /\ NoOverwrite

\* C6, as stated: a failure of os.makedirs or of a writer's open is fatal for
\* that file only; it does not leave the loop, and when main ends every
\* matched file has had its turn.
C6_WriteFailureSparesBatch ==
    /\ uncaught = << >>
    /\ (pc = "exited" /\ matches # << >>) => loop_i = Len(matches) + 1

\* C7, as stated: the exit status is 2 exactly when the glob matched nothing,
\* and 0 for every other completion.
C7_ExitStatus ==
    pc = "exited" =>
        /\ exit_status = 2 <=> matches = << >>
        /\ matches # << >> => exit_status = 0

HasLine(log, kind) == \E k \in 1..Len(log) : log[k].kind = kind

\* The iterations run so far all exported an empty record sequence
OnlyEmptyExports ==
    /\ pc \in {"loop", "exited"}
    /\ loop_i > 1
    /\ uncaught = << >>
    /\ \A k \in 1..(loop_i - 1) :
          /\ DecodesOk(Sorted(matches)[k])
          /\ DictsOf(Sorted(matches)[k]) = << >>

\* C8, as stated: with an empty record sequence the CSV and the text writer
\* emit nothing; for a file target no file is created or overwritten and the
\* caller is told that no data was written instead of "Wrote"; for stdout
\* nothing is printed.
C8_EmptyExportWritesNothing ==
    (OnlyEmptyExports /\ args.format \in {"csv", "txt"})
    => IF ToStdout
       THEN stdout_log = << >>
       ELSE /\ outfs = << >>
            /\ writes = << >>
            /\ HasLine(stdout_log, "No data to write.")
            /\ ~HasLine(stdout_log, "Wrote:")

RECURSIVE ErrorLines(_)
ErrorLines(paths) ==
    IF paths = << >> THEN << >>
    ELSE (IF DecodesOk(Head(paths)) THEN << >>
          ELSE <<Line(Decoded(Head(paths)).error, Head(paths), << >>)>>)
         \o ErrorLines(Tail(paths))

\* C9, as stated: when main ends after a non-empty glob, every match has been
\* processed once, in sorted order; each file that failed to decode is logged
\* to the error stream (in that order) and has no output, and every file that
\* decoded has been exported.
C9_AllMatchesProcessedInOrder ==
    (pc = "exited" /\ matches # << >>)
    => /\ loop_i = Len(matches) + 1
       /\ stderr_log = ErrorLines(Sorted(matches))
       /\ \A k \in 1..Len(writes) : DecodesOk(writes[k].src)
       /\ ~ToStdout =>
             \A q \in Range(matches) :
                 (DecodesOk(q) /\ Writer(DictsOf(q), OutFile(q)).opens)
                 => \E k \in 1..Len(writes) : writes[k].src = q

\* The stdout condition in the claim's words
StdoutRequestedOrImplied ==
    args.stdout \/ (Len(matches) = 1 /\ args.out = None)

\* Number of lines of kind `kind` in a log
RECURSIVE CountLines(_, _)
CountLines(log, kind) ==
    IF log = << >> THEN 0
    ELSE (IF Head(log).kind = kind THEN 1 ELSE 0) + CountLines(Tail(log), kind)

\* Exports are printed exactly when --stdout was given or one file matched
\* without -o, and otherwise announced as written, one per decoded match
ExportsGoToStdoutOrFiles ==
    /\ (\E k \in 1..Len(stdout_log) : stdout_log[k].kind \in {"json", "csv", "txt"})
          => StdoutRequestedOrImplied
    /\ (writes # << >> \/ HasLine(stdout_log, "Wrote:"))
          => ~StdoutRequestedOrImplied
    /\ (pc = "exited" /\ exit_status = 0)
          => LET decoded == Cardinality({ q \in Range(matches) : DecodesOk(q) })
             IN  IF StdoutRequestedOrImplied
                 THEN args.format = "json" => CountLines(stdout_log, "json") = decoded
                 ELSE CountLines(stdout_log, "Wrote:") = decoded

\* The path inside the target directory of a batch
BatchPath(src) ==
    (IF args.out = None THEN <<".">> ELSE args.out)
        \o <<src[2], "_coords.", args.format>>

\* C14, as stated: results go to standard output exactly when --stdout was
\* given or exactly one file matched and no -o path was given; in every other
\* case they are written to a derived path, which for a single match is the
\* input's base path with suffix _coords.<format>.
C14_SingleMatchDerivedPath ==
    /\ ExportsGoToStdoutOrFiles
    /\ \A k \in 1..Len(writes) :
          writes[k].out_file =
              IF Len(matches) = 1
              THEN <<writes[k].src[1], writes[k].src[2], "_coords.", args.format>>
              ELSE BatchPath(writes[k].src)

\* C14, amended: results go to standard output exactly when --stdout was
\* given or exactly one file matched and no -o path was given; in every other
\* case the output path is, for a single match, the -o path itself (a single
\* match is only written to a file when -o was given), and for several
\* matches <directory>/<input-basename>_coords.<format>, the directory being
\* the -o path or, without -o, the working directory.
C14_OutputDestination ==
    /\ ExportsGoToStdoutOrFiles
    /\ (Len(matches) = 1 /\ (writes # << >> \/ HasLine(stdout_log, "Wrote:")))
          => args.out # None
    /\ \A k \in 1..Len(writes) :
          writes[k].out_file =
              IF Len(matches) = 1 THEN args.out ELSE BatchPath(writes[k].src)
    /\ \A k \in 1..Len(stdout_log) :
          stdout_log[k].kind = "Wrote:"
          => IF Len(matches) = 1 THEN stdout_log[k].path = args.out
             ELSE \E q \in Range(matches) : stdout_log[k].path = BatchPath(q)

\* A single match written to the -o path
C14_Witness ==
    /\ pc = "exited"
    /\ Len(matches) = 1
    /\ ~args.stdout
    /\ Len(writes) = 1
    /\ writes[1].out_file = <<"out">>

-----------------------------------------------------------------------------
(* The chunked senders of the plugin, src/kristex-app.py:265-319.            *)
(* send_cars_telemetry_udp_chunked and send_players_info_udp_chunked are the *)
(* same loop with two payload types.  A record is held as its id and the     *)
(* number of bytes of its compact JSON encoding.                             *)

\* line 34
MAX_UDP_PACKET_SIZE == 1024

\* Longest record list the model draws
MaxRecords == 3

\* lines 273-274 and 304-305: len(json.dumps(rec, separators=(",", ":")).encode("utf-8"))
EncodedLen(rec) == rec.bytes

\* lines 39-41: UdpPayload(payload_type, node_data)
UdpPayload(ptype, node_data) == [type |-> ptype, data |-> node_data]

\* ChunkLoop leaving out the record that made the chunk overflow
RECURSIVE ChunkLoop_DropOnFlush(_, _, _, _, _)
ChunkLoop_DropOnFlush(data, ptype, chunk, chunk_size, sent) ==
    IF data = << >>
    THEN [chunk |-> chunk, sent |-> sent]
    ELSE IF chunk_size + EncodedLen(Head(data)) > MAX_UDP_PACKET_SIZE
    THEN ChunkLoop_DropOnFlush(Tail(data), ptype, << >>, 0,
                               Append(sent, UdpPayload(ptype, chunk)))
    ELSE ChunkLoop_DropOnFlush(Tail(data), ptype, Append(chunk, Head(data)),
                               chunk_size + EncodedLen(Head(data)), sent)

\* lines 271-285 and 300-313: the loop over the records; `sent` collects the
\* payloads handed to send_udp_payload, which logs its own failures
RECURSIVE ChunkLoop(_, _, _, _, _)
ChunkLoop(data, ptype, chunk, chunk_size, sent) ==
    IF data = << >>
    THEN [chunk |-> chunk, sent |-> sent]
    ELSE IF chunk_size + EncodedLen(Head(data)) > MAX_UDP_PACKET_SIZE
    THEN ChunkLoop(Tail(data), ptype, <<Head(data)>>, EncodedLen(Head(data)),
                   Append(sent, UdpPayload(ptype, chunk)))
    ELSE ChunkLoop(Tail(data), ptype, Append(chunk, Head(data)),
                   chunk_size + EncodedLen(Head(data)), sent)

\* lines 265-292 and 294-319: the payloads one call sends, in order
send_udp_chunked(data, ptype) ==
    IF data = << >> THEN << >>
    ELSE LET r == ChunkLoop(data, ptype, << >>, 0, << >>)
         IN  IF r.chunk # << >>
             THEN Append(r.sent, UdpPayload(ptype, r.chunk))
             ELSE r.sent

\* Encoded sizes of the records the model draws: three that fit a packet in
\* different numbers, one that does not fit a packet on its own
RecordSizes == {300, 500, 700, 1100}

\* The record lists get_all_cars_telemetry and get_all_players_info build:
\* one record per car id, in increasing id order
RecordLists ==
    UNION { { [k \in 1..n |-> [id |-> k - 1, bytes |-> sz[k]]] :
                sz \in [1..n -> RecordSizes] } : n \in 0..MaxRecords }

InitChunk ==
    /\ pc = "start"
    /\ fai_file = Truncate(<< >>, 0)
    /\ parsed = Failure("")
    /\ raw = << >>
    /\ nodes = << >>
    /\ include_walls = FALSE
    /\ subsample = 1
    /\ dicts = << >>
    /\ MainIdle
    /\ PluginIdle
    /\ telemetry_data \in RecordLists
    /\ payload_type \in {"cars_info", "players_info"}
    /\ sent_payloads = << >>

\* One call of send_cars_telemetry_udp_chunked or send_players_info_udp_chunked
SendChunked ==
    /\ pc = "start"
    /\ pc' = "done"
    /\ sent_payloads' = send_udp_chunked(telemetry_data, payload_type)
    /\ UNCHANGED <<decodeVars, dictVars, mainVars, pluginVars, telemetry_data,
                   payload_type>>

NextChunk == SendChunked

SpecChunk == InitChunk /\ [][NextChunk]_vars

\* The records of the payloads sent, in send order
SentRecords == Flatten([k \in 1..Len(sent_payloads) |-> sent_payloads[k].data])

\* C19: for a non-empty record list, the data lists of the payloads a chunked
\* sender sends, concatenated in send order, are the list itself: no record
\* is dropped, sent twice or moved.
C19_PayloadsPartitionTheList ==
    (pc = "done" /\ telemetry_data # << >>) =>
        /\ SentRecords = telemetry_data
        /\ \A k \in 1..Len(sent_payloads) : sent_payloads[k].type = payload_type

\* Three records in two payloads, one of them holding two records
C19_Witness ==
    /\ pc = "done"
    /\ Len(telemetry_data) = 3
    /\ Len(sent_payloads) = 2
    /\ \E k \in 1..2 : Len(sent_payloads[k].data) = 2

RECURSIVE SumLen(_)
SumLen(recs) == IF recs = << >> THEN 0 ELSE EncodedLen(Head(recs)) + SumLen(Tail(recs))

\* C20, as stated: every payload a chunked sender sends carries a non-empty
\* data list whose records' encoded sizes sum to at most MAX_UDP_PACKET_SIZE,
\* whatever the sizes of the records, a record larger than
\* MAX_UDP_PACKET_SIZE included.
C20_PayloadsNonEmptyAndWithinLimit ==
    pc = "done" =>
        \A k \in 1..Len(sent_payloads) :
            /\ sent_payloads[k].data # << >>
            /\ SumLen(sent_payloads[k].data) <= MAX_UDP_PACKET_SIZE

-----------------------------------------------------------------------------
(* The prepared track of the plugin, src/kristex-app.py:118-199 and 330-347. *)
(* Three kinds of thread run: the background thread                          *)
(* _prepare_and_send_track_thread, the game's main thread, which runs        *)
(* _on_send_button_clicked once per click, and the streaming threads the     *)
(* clicks start.  Every statement that touches _prepare_lock,                *)
(* _prepared_track_dicts or _prepare_error is a step of its own.  A value    *)
(* that may be None is held as <<v>> or << >>.                               *)

\* Most clicks of one run
MaxClicks == 2

\* CanAcquire that never waits
CanAcquire_NoWait(thread) == TRUE

\* threading.Lock.acquire (entry of `with _prepare_lock`): a thread may take
\* the lock when no thread holds it
CanAcquire(thread) == prepare_lock = ""

\* Python truth value of an optional string
Truthy(opt) == opt # None /\ opt[1] # ""

\* Python truth value of an optional list
NonEmpty(opt) == opt # None /\ opt[1] # << >>

\* line 334: list(_prepared_track_dicts), a new list of the same records
ListCopy(list) == [k \in 1..Len(list) |-> list[k]]

\* lines 129-140: what loading and converting the track's fast_lane.ai gives
PrepareOutcome(f) ==
    LET r == getNodesFromFastLane(f)
    IN  IF r.raised
        THEN [raised |-> TRUE, error |-> r.error, dicts |-> << >>]
        ELSE [raised |-> FALSE, error |-> "",
              dicts |-> nodes_to_dicts(r.nodes, FALSE, 5)]

\* The track files of the model: the three sample files and a file of six
\* nodes (two records at stride 5) whose detail block is missing
TrackFiles ==
    SampleFiles
    \cup { Truncate(FileWords(6, [k \in 1..6 |-> <<F(k % 2), F(0), F(k % 3), F(k), 100 + k>>],
                              6, << >>), 140) }

\* lines 142-144: what the prepare thread stores after a successful prepare
SuccessStore(ds) == [dicts |-> Some(ds), error |-> None]

\* ExceptStore leaving the stored records as they are
ExceptStore_KeepRecords(e) == [dicts |-> prepared_track_dicts, error |-> e]

\* lines 152-154: what the prepare thread stores after an exception e
ExceptStore(e) == [dicts |-> None, error |-> e]

\* MayStream testing the error alone
MayStream_ErrOnly(ds, err) == ~Truthy(err)

\* lines 337-343: the click handler goes on to start a streaming thread
MayStream(ds, err) == ~Truthy(err) /\ NonEmpty(ds)

\* lines 160-162 and 174: the number of records _udp_stream_dicts sends
StreamLen(arg) == IF NonEmpty(arg) THEN Len(arg[1]) ELSE 0

InitPlugin ==
    /\ pc = "plugin"
    /\ fai_file = Truncate(<< >>, 0)
    /\ parsed = Failure("")
    /\ raw = << >>
    /\ nodes = << >>
    /\ include_walls = FALSE
    /\ subsample = 1
    /\ dicts = << >>
    /\ MainIdle
    /\ ChunkIdle
    /\ prepare_lock = ""
    /\ prepared_track_dicts = None
    /\ prepare_error = None
    /\ prep_pc = "start"
    /\ prep_outcome \in { PrepareOutcome(f) : f \in TrackFiles }
    /\ prep_exc = None
    /\ click_pc = "idle"
    /\ click_dicts = None
    /\ click_err = None
    /\ clicks = 0
    /\ streams = << >>

notPlugin == <<pc, decodeVars, dictVars, mainVars, chunkVars>>

\* lines 125-140 return a list
PrepLoad ==
    /\ prep_pc = "start"
    /\ ~prep_outcome.raised
    /\ prep_pc' = "acquire"
    /\ UNCHANGED <<notPlugin, prepare_lock, prepared_track_dicts, prepare_error,
                   prep_outcome, prep_exc, click_pc, click_dicts, click_err, clicks,
                   streams>>

\* lines 125-140 raise: control goes to line 151
PrepLoadRaises ==
    /\ prep_pc = "start"
    /\ prep_outcome.raised
    /\ prep_pc' = "except"
    /\ prep_exc' = Some(prep_outcome.error)
    /\ UNCHANGED <<notPlugin, prepare_lock, prepared_track_dicts, prepare_error,
                   prep_outcome, click_pc, click_dicts, click_err, clicks, streams>>

\* line 142: with _prepare_lock
PrepAcquire ==
    /\ prep_pc = "acquire"
    /\ CanAcquire("prepare")
    /\ prepare_lock' = "prepare"
    /\ prep_pc' = "store_dicts"
    /\ UNCHANGED <<notPlugin, prepared_track_dicts, prepare_error, prep_outcome,
                   prep_exc, click_pc, click_dicts, click_err, clicks, streams>>

\* line 143
PrepStoreDicts ==
    /\ prep_pc = "store_dicts"
    /\ prepared_track_dicts' = SuccessStore(prep_outcome.dicts).dicts
    /\ prep_pc' = "store_error"
    /\ UNCHANGED <<notPlugin, prepare_lock, prepare_error, prep_outcome, prep_exc,
                   click_pc, click_dicts, click_err, clicks, streams>>

\* line 144
PrepStoreError ==
    /\ prep_pc = "store_error"
    /\ prepare_error' = SuccessStore(prep_outcome.dicts).error
    /\ prep_pc' = "release"
    /\ UNCHANGED <<notPlugin, prepare_lock, prepared_track_dicts, prep_outcome,
                   prep_exc, click_pc, click_dicts, click_err, clicks, streams>>

\* end of the with block of lines 142-144, then the log of line 146
PrepRelease ==
    /\ prep_pc = "release"
    /\ prepare_lock' = ""
    /\ prep_pc' = "stream"
    /\ UNCHANGED <<notPlugin, prepared_track_dicts, prepare_error, prep_outcome,
                   prep_exc, click_pc, click_dicts, click_err, clicks, streams>>

\* line 149: _udp_stream_dicts(dicts) is called in the prepare thread
PrepStream ==
    /\ prep_pc = "stream"
    /\ streams' = Append(streams, [by |-> "prepare",
                                   arg |-> Some(prep_outcome.dicts), next |-> 1])
    /\ prep_pc' = "streaming"
    /\ UNCHANGED <<notPlugin, prepare_lock, prepared_track_dicts, prepare_error,
                   prep_outcome, prep_exc, click_pc, click_dicts, click_err, clicks>>

\* lines 174-187: one record is sent, or its send fails and is logged
StreamSend ==
    \E s \in 1..Len(streams) :
        /\ streams[s].next <= StreamLen(streams[s].arg)
        /\ streams[s].by = "prepare" => prep_pc = "streaming"
        /\ streams' = [streams EXCEPT ![s].next = @ + 1]
        /\ UNCHANGED <<notPlugin, prepare_lock, prepared_track_dicts, prepare_error,
                       prep_pc, prep_outcome, prep_exc, click_pc, click_dicts,
                       click_err, clicks>>

\* line 149 returns: the thread function ends
PrepStreamReturns ==
    /\ prep_pc = "streaming"
    /\ \E s \in 1..Len(streams) :
          streams[s].by = "prepare" /\ streams[s].next > StreamLen(streams[s].arg)
    /\ prep_pc' = "end"
    /\ UNCHANGED <<notPlugin, prepare_lock, prepared_track_dicts, prepare_error,
                   prep_outcome, prep_exc, click_pc, click_dicts, click_err, clicks,
                   streams>>

\* lines 146-149 raise after the store (a log call of line 146, 161, 172, 189
\* or 191 that fails): control goes to line 151
PrepStreamRaises ==
    /\ prep_pc \in {"stream", "streaming"}
    /\ prep_pc' = "except"
    /\ prep_exc' = Some("log failed")
    /\ UNCHANGED <<notPlugin, prepare_lock, prepared_track_dicts, prepare_error,
                   prep_outcome, click_pc, click_dicts, click_err, clicks, streams>>

\* line 152: with _prepare_lock
PrepExceptAcquire ==
    /\ prep_pc = "except"
    /\ CanAcquire("prepare")
    /\ prepare_lock' = "prepare"
    /\ prep_pc' = "clear_dicts"
    /\ UNCHANGED <<notPlugin, prepared_track_dicts, prepare_error, prep_outcome,
                   prep_exc, click_pc, click_dicts, click_err, clicks, streams>>

\* line 153
PrepClearDicts ==
    /\ prep_pc = "clear_dicts"
    /\ prepared_track_dicts' = ExceptStore(prep_exc).dicts
    /\ prep_pc' = "set_error"
    /\ UNCHANGED <<notPlugin, prepare_lock, prepare_error, prep_outcome, prep_exc,
                   click_pc, click_dicts, click_err, clicks, streams>>

\* line 154
PrepSetError ==
    /\ prep_pc = "set_error"
    /\ prepare_error' = ExceptStore(prep_exc).error
    /\ prep_pc' = "except_release"
    /\ UNCHANGED <<notPlugin, prepare_lock, prepared_track_dicts, prep_outcome,
                   prep_exc, click_pc, click_dicts, click_err, clicks, streams>>

\* end of the with block of lines 152-154, then the log of line 155
PrepExceptRelease ==
    /\ prep_pc = "except_release"
    /\ prepare_lock' = ""
    /\ prep_pc' = "end"
    /\ UNCHANGED <<notPlugin, prepared_track_dicts, prepare_error, prep_outcome,
                   prep_exc, click_pc, click_dicts, click_err, clicks, streams>>

\* lines 330-332: the button is clicked, the handler starts
Click ==
    /\ click_pc = "idle"
    /\ clicks < MaxClicks
    /\ clicks' = clicks + 1
    /\ click_pc' = "acquire"
    /\ click_dicts' = None
    /\ click_err' = None
    /\ UNCHANGED <<notPlugin, prepare_lock, prepared_track_dicts, prepare_error,
                   prep_pc, prep_outcome, prep_exc, streams>>

\* line 333: with _prepare_lock
ClickAcquire ==
    /\ click_pc = "acquire"
    /\ CanAcquire("click")
    /\ prepare_lock' = "click"
    /\ click_pc' = "copy_dicts"
    /\ UNCHANGED <<notPlugin, prepared_track_dicts, prepare_error, prep_pc,
                   prep_outcome, prep_exc, click_dicts, click_err, clicks, streams>>

\* line 334
ClickCopyDicts ==
    /\ click_pc = "copy_dicts"
    /\ click_dicts' = IF prepared_track_dicts = None THEN None
                      ELSE Some(ListCopy(prepared_track_dicts[1]))
    /\ click_pc' = "copy_err"
    /\ UNCHANGED <<notPlugin, prepare_lock, prepared_track_dicts, prepare_error,
                   prep_pc, prep_outcome, prep_exc, click_err, clicks, streams>>

\* line 335
ClickCopyErr ==
    /\ click_pc = "copy_err"
    /\ click_err' = prepare_error
    /\ click_pc' = "release"
    /\ UNCHANGED <<notPlugin, prepare_lock, prepared_track_dicts, prepare_error,
                   prep_pc, prep_outcome, prep_exc, click_dicts, clicks, streams>>

\* end of the with block of lines 333-335
ClickRelease ==
    /\ click_pc = "release"
    /\ prepare_lock' = ""
    /\ click_pc' = "check"
    /\ UNCHANGED <<notPlugin, prepared_track_dicts, prepare_error, prep_pc,
                   prep_outcome, prep_exc, click_dicts, click_err, clicks, streams>>

\* lines 337-343: an error or no records: log and return
ClickRefuses ==
    /\ click_pc = "check"
    /\ ~MayStream(click_dicts, click_err)
    /\ click_pc' = "idle"
    /\ UNCHANGED <<notPlugin, prepare_lock, prepared_track_dicts, prepare_error,
                   prep_pc, prep_outcome, prep_exc, click_dicts, click_err, clicks,
                   streams>>

\* lines 346-347: a thread running _udp_stream_dicts(dicts) is started
ClickStartsStream ==
    /\ click_pc = "check"
    /\ MayStream(click_dicts, click_err)
    /\ streams' = Append(streams, [by |-> "click", arg |-> click_dicts, next |-> 1])
    /\ click_pc' = "idle"
    /\ UNCHANGED <<notPlugin, prepare_lock, prepared_track_dicts, prepare_error,
                   prep_pc, prep_outcome, prep_exc, click_dicts, click_err, clicks>>

NextPlugin ==
    \/ PrepLoad
    \/ PrepLoadRaises
    \/ PrepAcquire
    \/ PrepStoreDicts
    \/ PrepStoreError
    \/ PrepRelease
    \/ PrepStream
    \/ StreamSend
    \/ PrepStreamReturns
    \/ PrepStreamRaises
    \/ PrepExceptAcquire
    \/ PrepClearDicts
    \/ PrepSetError
    \/ PrepExceptRelease
    \/ Click
    \/ ClickAcquire
    \/ ClickCopyDicts
    \/ ClickCopyErr
    \/ ClickRelease
    \/ ClickRefuses
    \/ ClickStartsStream

SpecPlugin == InitPlugin /\ [][NextPlugin]_vars

-----------------------------------------------------------------------------
(* Claims about the prepared track of the plugin *)

\* A thread standing at a statement that reads or writes the prepared result
\* holds the lock
AccessUnderLock ==
    /\ prep_pc \in {"store_dicts", "store_error", "clear_dicts", "set_error"}
          => prepare_lock = "prepare"
    /\ click_pc \in {"copy_dicts", "copy_err"} => prepare_lock = "click"

\* A step that replaces the prepared result is taken by the prepare thread
\* with the lock held, a step that reads it by the click handler with the
\* lock held; a stored list is replaced as a whole, and the list handed to a
\* streaming call stays as it was handed over
LockedStep ==
    /\ (prepared_track_dicts' # prepared_track_dicts \/ prepare_error' # prepare_error)
          => /\ prepare_lock = "prepare" /\ prepare_lock' = "prepare"
             /\ click_pc \notin {"copy_dicts", "copy_err", "release"}
    /\ (click_pc \in {"copy_dicts", "copy_err"} /\ click_pc' # click_pc)
          => /\ prepare_lock = "click" /\ prepare_lock' = "click"
             /\ prep_pc \notin {"store_dicts", "store_error", "release",
                                 "clear_dicts", "set_error", "except_release"}
    /\ (prepared_track_dicts # None /\ prepared_track_dicts' # prepared_track_dicts)
          => prepared_track_dicts' = None
    /\ Len(streams') >= Len(streams)
    /\ \A s \in 1..Len(streams) :
          streams'[s].arg = streams[s].arg /\ streams'[s].by = streams[s].by

\* C16: under every interleaving of the prepare thread and the click
\* handler, each read and each replacement of _prepared_track_dicts and
\* _prepare_error happens while the acting thread holds _prepare_lock, and a
\* record list that was stored or handed to a streaming call is not changed
\* by any thread.
C16_PreparedResultUnderLock == [](AccessUnderLock) /\ [][LockedStep]_vars

\* The click handler waits for the lock while the prepare thread is between
\* its two stores
C16_Witness ==
    /\ prep_pc = "store_error"
    /\ click_pc = "acquire"
    /\ prepare_lock = "prepare"
    /\ prepared_track_dicts # None

\* C17: in every state another thread can observe under the lock,
\* _prepared_track_dicts and _prepare_error are not both set; after a
\* successful prepare the records are stored and the error is None; after a
\* failure of the prepare thread, a failure after a successful store
\* included, the records are None and the error is the exception's message.
C17_RecordsAndErrorExclusive ==
    /\ prepare_lock # "prepare"
          => ~(prepared_track_dicts # None /\ prepare_error # None)
    /\ (prep_pc \in {"stream", "streaming"} \/ (prep_pc = "end" /\ prep_exc = None))
          => /\ prepared_track_dicts = Some(prep_outcome.dicts)
             /\ prepare_error = None
    /\ (prep_pc = "end" /\ prep_exc # None)
          => /\ prepared_track_dicts = None
             /\ prepare_error = prep_exc
             /\ Truthy(prepare_error)

\* The prepare thread has ended on a failure that came after it had stored
\* a non-empty record list
C17_Witness ==
    /\ prep_pc = "end"
    /\ ~prep_outcome.raised
    /\ prep_outcome.dicts # << >>
    /\ prep_exc # None
    /\ prepared_track_dicts = None
    /\ prepare_error # None

\* The prepare thread has stored its result
PrepareStored ==
    ~prep_outcome.raised /\ prep_pc \notin {"start", "acquire", "store_dicts"}

\* Every streaming thread a click started streams the non-empty list a
\* successful prepare stored
ClickStreamsArePrepared ==
    \A s \in 1..Len(streams) :
        streams[s].by = "click"
        => /\ PrepareStored
           /\ prep_outcome.dicts # << >>
           /\ streams[s].arg = Some(prep_outcome.dicts)

\* The click handler copies what is stored at the time it holds the lock,
\* and a streaming thread is started only by a handler whose copy is a
\* non-empty list and which saw no error, with that copy as its argument
SnapshotStep ==
    /\ (click_pc = "copy_dicts" /\ click_pc' = "copy_err")
          => prepare_lock = "click" /\ click_dicts' = prepared_track_dicts
    /\ (click_pc = "copy_err" /\ click_pc' = "release")
          => prepare_lock = "click" /\ click_err' = prepare_error
    /\ (Len(streams') > Len(streams) /\ streams'[Len(streams')].by = "click")
          => /\ click_pc = "check"
             /\ click_dicts # None /\ click_dicts[1] # << >>
             /\ click_err = None
             /\ streams'[Len(streams')].arg = click_dicts
    /\ (click_pc = "check" /\ click_pc' = "idle"
           /\ (click_dicts = None \/ click_err # None))
          => streams' = streams

\* C18: a click starts a streaming thread only if, when the handler held the
\* lock, the prepare thread had stored a non-empty record list and no error
\* was recorded; a click handled before the store or after a failed prepare
\* starts none; the thread streams the copy taken under the lock.
C18_ClickStreamsSnapshot == [](ClickStreamsArePrepared) /\ [][SnapshotStep]_vars

\* A click-started thread has streamed both records of its copy although the
\* prepare thread has since failed and cleared the stored list, and a second
\* click has come
C18_Witness ==
    /\ clicks = 2
    /\ prepared_track_dicts = None
    /\ prepare_error # None
    /\ \E s \in 1..Len(streams) :
          /\ streams[s].by = "click"
          /\ Len(streams[s].arg[1]) = 2
          /\ streams[s].next = 3

====
